---- MODULE Spec2Model ----
(***************************************************************************)
(* Model of the XENFT SVG generator (mintInfoDecoder.js, app.js).         *)
(*                                                                         *)
(* mintInfoDecoder.js declares decodeMintInfo, generateColorScheme,        *)
(* getXENFTRarityInfo and generateXENFTSVG twice in the same script.       *)
(* Function declarations are hoisted and the last declaration of a name    *)
(* wins, so the functions the page runs are the second ones (the ones      *)
(* without try/catch); those are the ones modelled here.                   *)
(*                                                                         *)
(* An arbitrary-precision integer (a JavaScript BigInt) is modelled as the *)
(* finite set of the positions of its 1 bits: {} is 0, {0} is 1, {3,0} is  *)
(* 9.  A JavaScript Number holding an integer is modelled the same way,    *)
(* after rounding to the 53 significant bits a double keeps.               *)
(***************************************************************************)
EXTENDS Integers, Sequences, FiniteSets, TLC

VARIABLES
    mintInfoValue,  \* the packed value handed to decodeMintInfo
    decoded,        \* what decodeMintInfo did with it
    clock,          \* the wall clock: Date.now() is clock.sec * 1000 + clock.ms
    colorScheme,    \* the last call of generateColorScheme and what it returned
    xenftContract,  \* app.js: the contract handle, or null
    currentTokenId, \* app.js: the token id last asked for, or null
    calls,          \* the calls of fetchAndRenderXenft that are at an await
    loadingMessage, \* the loading indicator and the two connect buttons
    errorMessage,   \* the error line of the page
    xenftCardContainer, \* the card: hidden or shown
    svgContainer,   \* the image in the card
    tokenInfo,      \* the text fields of the card
    callArg,        \* the value handed to getXENFTRarityInfo or generateXENFTSVG
    callResult,     \* the function called on it last, and what the call did
    provider,       \* app.js: the chain provider, or null
    xenCryptoContract, \* app.js: the second contract handle, or null
    account,        \* app.js: the wallet account, or null
    ownedTokens,    \* app.js: the token ids of the account
    connectedContainer, \* the part of the page shown while connected
    connectCall,    \* the call of connectWallet or connectToRPC that is at an await
    savedXENFTs     \* localStorage item 'savedXENFTs': the gallery records

sessionVars == <<provider, xenCryptoContract, account, ownedTokens,
                 connectedContainer, connectCall>>

appVars == <<xenftContract, currentTokenId, calls, loadingMessage, errorMessage,
             xenftCardContainer, svgContainer, tokenInfo, sessionVars, savedXENFTs>>

coreVars == <<callArg, callResult>>

vars == <<mintInfoValue, decoded, clock, colorScheme, appVars, coreVars>>

(***************************************************************************)
(* Bounds of the model.                                                    *)
(***************************************************************************)
\* highest bit position an input value may have set (above the 256-bit word)
MaxBit == 258

\* the clock starts on this day after the epoch and runs for MaxDays days
StartDay == 20000
MaxDays == 390

(***************************************************************************)
(* Arithmetic on integers held as sets of bit positions.                   *)
(***************************************************************************)
MaxOf(S) == CHOOSE x \in S : \A y \in S : y <= x

\* v >> n
Shr(v, n) == {b - n : b \in {x \in v : x >= n}}

\* a & b
BitAnd(a, b) == a \cap b

\* the integer 2^w - 1, as written by an exact literal such as 0xFFFF
Ones(w) == 0 .. (w - 1)

\* v + 2^k
AddPow2(v, k) ==
    LET j == CHOOSE i \in k .. (k + Cardinality(v) + 1) :
                 i \notin v /\ \A x \in k .. (i - 1) : x \in v
    IN  (v \ (k .. (j - 1))) \cup {j}

\* the value of a small bit set as an integer of the model checker
RECURSIVE Pow2(_)
Pow2(n) == IF n = 0 THEN 1 ELSE 2 * Pow2(n - 1)

RECURSIVE NatOf(_)
NatOf(v) == IF v = {} THEN 0
            ELSE LET m == MaxOf(v) IN Pow2(m) + NatOf(v \ {m})

\* the bit set of a small non-negative integer
RECURSIVE BitsOfFrom(_, _)
BitsOfFrom(n, i) == IF n = 0 THEN {}
                    ELSE (IF n % 2 = 1 THEN {i} ELSE {}) \cup BitsOfFrom(n \div 2, i + 1)

BitsOf(n) == BitsOfFrom(n, 0)

\* v << n
Shl(v, n) == {b + n : b \in v}

(***************************************************************************)
(* IEEE-754 double precision: an integer is rounded to 53 significant bits,*)
(* to nearest, ties to even.  This is what a numeric literal and Number()  *)
(* do to an integer.                                                       *)
(***************************************************************************)
MantissaBits == 53

RoundToDouble(v) ==
    IF v = {} THEN {}
    ELSE LET m == MaxOf(v) IN
         IF m < MantissaBits THEN v
         ELSE LET cut    == m - (MantissaBits - 1)
                  kept   == {b \in v : b >= cut}
                  half   == (cut - 1) \in v
                  sticky == \E b \in v : b < cut - 1
                  odd    == cut \in v
              IN  IF half /\ (sticky \/ odd) THEN AddPow2(kept, cut) ELSE kept

\* Number(bigint)
Number(v) == RoundToDouble(v)

\* a numeric literal of the source text: a Number, so a double
NumberLiteral(v) == RoundToDouble(v)

\* BigInt(number) of an integer-valued Number is exact
BigIntOfNumber(n) == n

(***************************************************************************)
(* BigInt.prototype.toString(): the decimal digits, most significant first.*)
(***************************************************************************)
\* the digits are produced from limbs of LimbBits bits: d * 2^LimbBits + c
LimbBits == 15

RECURSIVE DecMulAdd(_, _, _)
DecMulAdd(d, m, c) ==
    IF d = <<>> THEN (IF c = 0 THEN <<>> ELSE <<c % 10>> \o DecMulAdd(<<>>, m, c \div 10))
    ELSE LET x == m * Head(d) + c
         IN  <<x % 10>> \o DecMulAdd(Tail(d), m, x \div 10)

\* little-endian decimal digits of v >> (LimbBits * k)
RECURSIVE DecLE(_, _)
DecLE(v, k) ==
    IF v = {} \/ LimbBits * k > MaxOf(v) THEN <<>>
    ELSE DecMulAdd(DecLE(v, k + 1), Pow2(LimbBits),
                   NatOf({b - LimbBits * k :
                            b \in {x \in v : LimbBits * k <= x /\ x < LimbBits * (k + 1)}}))

ReverseSeq(s) == [i \in 1 .. Len(s) |-> s[Len(s) + 1 - i]]

toString(v) == IF v = {} THEN <<0>> ELSE ReverseSeq(DecLE(v, 0))

(***************************************************************************)
(* decodeMintInfo (mintInfoDecoder.js, second declaration).                *)
(* The value read from the chain is either something BigInt() accepts      *)
(* (kind "bigint", with its bits) or something it rejects (kind            *)
(* "malformed": undefined, a non-numeric string, a fractional number).     *)
(***************************************************************************)
NoValue == [none |-> TRUE]

\* BigInt(mintInfoValue) throws on what it cannot convert
BigIntThrows(x) == x.kind # "bigint"

BigInt(x) == x.bits

\* const redeemed = Boolean(mintInfo & BigInt(1));
redeemed(mintInfo) == BitAnd(mintInfo, BigIntOfNumber(NumberLiteral(Ones(1)))) # {}

\* const classValue = Number((mintInfo >> BigInt(1)) & BigInt(0xFF));
classValue(mintInfo) ==
    Number(BitAnd(Shr(mintInfo, 1), BigIntOfNumber(NumberLiteral(Ones(8)))))

\* const isApex = Boolean(classValue & 0x80);
isApex(cv) == BitAnd(cv, {7}) # {}

\* const isLimited = Boolean(classValue & 0x40);
isLimited(cv) == BitAnd(cv, {6}) # {}

\* const powerGroupIdx = classValue & 0x3F;
powerGroupIdx(cv) == NatOf(BitAnd(cv, Ones(6)))

\* eaa read one bit too low (shift 8 instead of 9)
eaa_shift8(mintInfo) ==
    NatOf(Number(BitAnd(Shr(mintInfo, 8), BigIntOfNumber(NumberLiteral(Ones(16))))))

\* const eaa = Number((mintInfo >> BigInt(9)) & BigInt(0xFFFF));
eaa(mintInfo) ==
    NatOf(Number(BitAnd(Shr(mintInfo, 9), BigIntOfNumber(NumberLiteral(Ones(16))))))

\* const amp = Number((mintInfo >> BigInt(25)) & BigInt(0xFFFF));
amp(mintInfo) ==
    NatOf(Number(BitAnd(Shr(mintInfo, 25), BigIntOfNumber(NumberLiteral(Ones(16))))))

\* BigInt(0xFFFFFFFFFFFFFFFF): the literal is a Number, hence a double, hence
\* 2^64 and not 2^64 - 1; the mask has the single bit 64.
Mask64 == BigIntOfNumber(NumberLiteral(Ones(64)))

\* const rank = (mintInfo >> BigInt(41)) & BigInt(0xFFFFFFFFFFFFFFFF);
rank(mintInfo) == BitAnd(Shr(mintInfo, 41), Mask64)

\* const maturityTs = Number((mintInfo >> BigInt(169)) & BigInt(0xFFFFFFFFFFFFFFFF));
maturityTs(mintInfo) == Number(BitAnd(Shr(mintInfo, 169), Mask64))

\* term read with a mask one bit too wide (0x1FFFF)
term_mask17(mintInfo) ==
    NatOf(Number(BitAnd(Shr(mintInfo, 233), BigIntOfNumber(NumberLiteral(Ones(17))))))

\* const term = Number((mintInfo >> BigInt(233)) & BigInt(0xFFFF));
term(mintInfo) ==
    NatOf(Number(BitAnd(Shr(mintInfo, 233), BigIntOfNumber(NumberLiteral(Ones(16))))))

\* The result: threw tells whether the call raised; value is the returned
\* object.  rank is the decimal string, maturityTs the Number (as its bits).
decodeMintInfo(x) ==
    IF BigIntThrows(x) THEN [threw |-> TRUE, value |-> NoValue]
    ELSE LET mintInfo == BigInt(x)
             cv       == classValue(mintInfo)
         IN  [threw |-> FALSE,
              value |-> [term       |-> term(mintInfo),
                         maturityTs |-> maturityTs(mintInfo),
                         rank       |-> toString(rank(mintInfo)),
                         amp        |-> amp(mintInfo),
                         eaa        |-> eaa(mintInfo),
                         class      |-> [isApex        |-> isApex(cv),
                                         isLimited     |-> isLimited(cv),
                                         powerGroupIdx |-> powerGroupIdx(cv)],
                         redeemed   |-> redeemed(mintInfo)]]

(***************************************************************************)
(* The page as index.html and the top of app.js leave it: nothing          *)
(* connected, no call in flight, the card, the error line and the loading  *)
(* indicator hidden.  null is modelled as 0 where the value is otherwise a *)
(* positive token id.                                                      *)
(***************************************************************************)
\* the calls of fetchAndRenderXenft that may be in flight at once
MaxCalls == 2

CallIds == 1 .. MaxCalls

IdleCall == [pc |-> "idle", tokenId |-> 0, vmuCountValue |-> 0,
             mintInfoValue |-> [kind |-> "bigint", bits |-> {}],
             xenBurnedValue |-> 0]

PageLoaded ==
    /\ xenftContract = "null"
    /\ currentTokenId = 0
    /\ calls = [i \in CallIds |-> IdleCall]
    /\ loadingMessage = [hidden |-> TRUE, buttonsDisabled |-> FALSE]
    /\ errorMessage = [hidden |-> TRUE, textContent |-> <<>>]
    /\ xenftCardContainer = [hidden |-> TRUE]
    /\ svgContainer = [innerHTML |-> NoValue]
    /\ tokenInfo = [displayTokenId |-> 0, vmuCount |-> 0, termValue |-> 0,
                    burnedValue |-> 0, typeValue |-> <<"Common">>]
    /\ provider = "null"
    /\ xenCryptoContract = "null"
    /\ account = "null"
    /\ ownedTokens = <<>>
    /\ connectedContainer = [hidden |-> TRUE]
    /\ connectCall = [pc |-> "idle"]
    /\ savedXENFTs = <<>>

(***************************************************************************)
(* The packed values the decoder is applied to.                            *)
(***************************************************************************)
\* offsets and widths of the packed word, as documented
FieldRanges == {<<0, 1>>, <<1, 6>>, <<7, 1>>, <<8, 1>>, <<9, 16>>, <<25, 16>>,
                <<41, 128>>, <<169, 64>>, <<233, 16>>}

Pack(t, m, r, a, e, c, rd) ==
    Shl(BitsOf(t), 233) \cup Shl(BitsOf(m), 169) \cup Shl(BitsOf(r), 41)
      \cup Shl(BitsOf(a), 25) \cup Shl(BitsOf(e), 9) \cup Shl(BitsOf(c), 1)
      \cup BitsOf(rd)

SingleBit == {{b} : b \in 0 .. MaxBit}

LowRuns == {0 .. b : b \in 0 .. MaxBit}

FieldRuns == {f[1] .. (f[1] + f[2] - 1) : f \in FieldRanges}

HighBits == {249, 256, MaxBit}

HighMixed == {{h} \cup s : h \in HighBits, s \in SingleBit \cup FieldRuns \cup {0 .. 248}}

Typical == {Pack(100, 1700000000, 12345678, 3000, 100, 0, 0),
            Pack(365, 1893456000, 2000000001, 1, 10, 128 + 5, 1),
            Pack(1, 86400, 1, 65535, 65535, 64 + 63, 0)}

PackedValues == {{}} \cup SingleBit \cup LowRuns \cup FieldRuns \cup HighMixed \cup Typical

ChainValues == {[kind |-> "bigint", bits |-> v] : v \in PackedValues}
                 \cup {[kind |-> "malformed", bits |-> {}]}

(***************************************************************************)
(* SpecDecode: the decoder applied to every value of ChainValues.          *)
(***************************************************************************)
NotDecoded == [done |-> FALSE, threw |-> FALSE, value |-> NoValue]

ClockIdle == [sec |-> StartDay * 86400, ms |-> 0]

NotCalled == [called |-> FALSE, now |-> 0, result |-> NoValue]

\* neither getXENFTRarityInfo nor an image generator has been called
NoCall == [fn |-> "none", threw |-> FALSE, value |-> NoValue]

CoreIdle == callArg = NoValue /\ callResult = NoCall

InitDecode ==
    /\ mintInfoValue \in ChainValues
    /\ decoded = NotDecoded
    /\ clock = ClockIdle
    /\ colorScheme = NotCalled
    /\ PageLoaded
    /\ CoreIdle

Decode ==
    /\ ~decoded.done
    /\ decoded' = [done  |-> TRUE,
                   threw |-> decodeMintInfo(mintInfoValue).threw,
                   value |-> decodeMintInfo(mintInfoValue).value]
    /\ UNCHANGED <<mintInfoValue, clock, colorScheme, appVars, coreVars>>

NextDecode == Decode

SpecDecode == InitDecode /\ [][NextDecode]_vars

\* the decoder returned an object for the value v
Returned == decoded.done /\ ~decoded.threw

\* the integer held in the w bits of v from bit off: (v >> off) mod 2^w
Field(v, off, w) == {b - off : b \in {x \in v : off <= x /\ x < off + w}}

\* a < b for decimal strings without leading zeros
RECURSIVE DecLess(_, _)
DecLess(a, b) ==
    IF Len(a) # Len(b) THEN Len(a) < Len(b)
    ELSE IF a = <<>> THEN FALSE
    ELSE IF Head(a) # Head(b) THEN Head(a) < Head(b)
    ELSE DecLess(Tail(a), Tail(b))

(***************************************************************************)
(* Claims about decodeMintInfo, checked under SpecDecode.                  *)
(***************************************************************************)

\* C1: the decoded rank, as a decimal string, is exactly the 128-bit integer
\* held in bits 41..168 of the packed value.
C1_RankIsBits41To168 ==
    Returned => decoded.value.rank = toString(Field(mintInfoValue.bits, 41, 128))

C3_FieldsInRange ==
    (decoded.done /\ mintInfoValue.kind = "bigint"
                  /\ mintInfoValue.bits \subseteq 0 .. 248) =>
        /\ ~decoded.threw
        /\ decoded.value.class.powerGroupIdx \in 0 .. 63
        /\ decoded.value.eaa \in 0 .. 65535
        /\ decoded.value.amp \in 0 .. 65535
        /\ decoded.value.term \in 0 .. 65535
        /\ DecLess(decoded.value.rank, toString({128}))
        /\ \A b \in decoded.value.maturityTs : b < 64

\* the fields of a decoded object that are not zero/false
NonZeroFields(d) ==
    {f \in {"redeemed", "powerGroupIdx", "isLimited", "isApex", "eaa", "amp",
            "rank", "maturityTs", "term"} :
        CASE f = "redeemed"      -> d.redeemed
          [] f = "powerGroupIdx" -> d.class.powerGroupIdx # 0
          [] f = "isLimited"     -> d.class.isLimited
          [] f = "isApex"        -> d.class.isApex
          [] f = "eaa"           -> d.eaa # 0
          [] f = "amp"           -> d.amp # 0
          [] f = "rank"          -> d.rank # <<0>>
          [] f = "maturityTs"    -> d.maturityTs # {}
          [] f = "term"          -> d.term # 0}

\* the field whose declared range holds bit b
FieldAt(b) ==
    CASE b = 0     -> "redeemed"
      [] b \in 1 .. 6     -> "powerGroupIdx"
      [] b = 7     -> "isLimited"
      [] b = 8     -> "isApex"
      [] b \in 9 .. 24    -> "eaa"
      [] b \in 25 .. 40   -> "amp"
      [] b \in 41 .. 168  -> "rank"
      [] b \in 169 .. 232 -> "maturityTs"
      [] b \in 233 .. 248 -> "term"

\* C5: the fields read disjoint ranges covering bits 0..248: for a value with
\* the single bit b set, exactly the field whose range holds b is non-zero.
C5_OneBitOneField ==
    \A b \in 0 .. 248 :
        (Returned /\ mintInfoValue.bits = {b}) =>
            NonZeroFields(decoded.value) = {FieldAt(b)}

\* C6: the decoded maturityTs is exactly the 64-bit integer held in bits
\* 169..232 of the packed value.
C6_MaturityIsBits169To232 ==
    Returned => decoded.value.maturityTs = Field(mintInfoValue.bits, 169, 64)

DateNowSeconds(c) == c.sec

\* const daysSinceEpoch = Math.floor(now / 86400);
daysSinceEpoch(now) == now \div 86400

\* the cycle taken from 31-day months
colorCycle_div31(days) == (days \div 31) % 12

\* const colorCycle = Math.floor(daysSinceEpoch / 30) % 12;
colorCycle(days) == (days \div 30) % 12

\* the table with the last row a copy of the first
colorSchemes_lastIsFirst ==
    <<[primary |-> "#FF5733", secondary |-> "#C70039", tertiary |-> "#900C3F", background |-> "#1C0F13"],
      [primary |-> "#33FF57", secondary |-> "#00C739", tertiary |-> "#0C903F", background |-> "#0F1C13"],
      [primary |-> "#3357FF", secondary |-> "#0039C7", tertiary |-> "#0C0C90", background |-> "#0F131C"],
      [primary |-> "#FF33F5", secondary |-> "#C700B9", tertiary |-> "#900C84", background |-> "#1C0F1A"],
      [primary |-> "#33FFF5", secondary |-> "#00C7B9", tertiary |-> "#0C9084", background |-> "#0F1C1A"],
      [primary |-> "#FFFF33", secondary |-> "#C7C700", tertiary |-> "#909000", background |-> "#1C1C0F"],
      [primary |-> "#FF8333", secondary |-> "#C75200", tertiary |-> "#903C00", background |-> "#1C150F"],
      [primary |-> "#FF3383", secondary |-> "#C70052", tertiary |-> "#90003C", background |-> "#1C0F15"],
      [primary |-> "#83FF33", secondary |-> "#52C700", tertiary |-> "#3C9000", background |-> "#151C0F"],
      [primary |-> "#8333FF", secondary |-> "#5200C7", tertiary |-> "#3C0090", background |-> "#150F1C"],
      [primary |-> "#33FFFF", secondary |-> "#00C7C7", tertiary |-> "#009090", background |-> "#0F1C1C"],
      [primary |-> "#FF5733", secondary |-> "#C70039", tertiary |-> "#900C3F", background |-> "#1C0F13"]>>

\* const colorSchemes = [ ... ]; the sequence is 1-based, cycle k is row k + 1
colorSchemes ==
    <<[primary |-> "#FF5733", secondary |-> "#C70039", tertiary |-> "#900C3F", background |-> "#1C0F13"],
      [primary |-> "#33FF57", secondary |-> "#00C739", tertiary |-> "#0C903F", background |-> "#0F1C13"],
      [primary |-> "#3357FF", secondary |-> "#0039C7", tertiary |-> "#0C0C90", background |-> "#0F131C"],
      [primary |-> "#FF33F5", secondary |-> "#C700B9", tertiary |-> "#900C84", background |-> "#1C0F1A"],
      [primary |-> "#33FFF5", secondary |-> "#00C7B9", tertiary |-> "#0C9084", background |-> "#0F1C1A"],
      [primary |-> "#FFFF33", secondary |-> "#C7C700", tertiary |-> "#909000", background |-> "#1C1C0F"],
      [primary |-> "#FF8333", secondary |-> "#C75200", tertiary |-> "#903C00", background |-> "#1C150F"],
      [primary |-> "#FF3383", secondary |-> "#C70052", tertiary |-> "#90003C", background |-> "#1C0F15"],
      [primary |-> "#83FF33", secondary |-> "#52C700", tertiary |-> "#3C9000", background |-> "#151C0F"],
      [primary |-> "#8333FF", secondary |-> "#5200C7", tertiary |-> "#3C0090", background |-> "#150F1C"],
      [primary |-> "#33FFFF", secondary |-> "#00C7C7", tertiary |-> "#009090", background |-> "#0F1C1C"],
      [primary |-> "#FF3333", secondary |-> "#C70000", tertiary |-> "#900000", background |-> "#1C0F0F"]>>

\* the countdown reduced modulo 30, so that it is 0 on a boundary day
daysUntilNextCycle_mod30(days) == (30 - (days % 30)) % 30

\* daysUntilNextCycle: 30 - (daysSinceEpoch % 30)
daysUntilNextCycle(days) == 30 - (days % 30)

generateColorScheme(c) ==
    LET now  == DateNowSeconds(c)
        days == daysSinceEpoch(now)
        row  == colorSchemes[colorCycle(days) + 1]
    IN  [primary            |-> row.primary,
         secondary          |-> row.secondary,
         tertiary           |-> row.tertiary,
         background         |-> row.background,
         cycleNumber        |-> colorCycle(days),
         daysUntilNextCycle |-> daysUntilNextCycle(days)]

(***************************************************************************)
(* Number arithmetic on values held as bit sets, for the maturity line.    *)
(***************************************************************************)
\* x < y
Less(x, y) == \E k \in y \ x : \A j \in (x \cup y) : j > k => (j \in x <=> j \in y)

\* the bits of v below position i: v mod 2^i
LowBits(v, i) == {x \in v : x < i}

\* a - b for a >= b: bit i is a_i xor b_i xor (a borrow into position i)
BigSub(a, b) ==
    IF a = {} THEN {}
    ELSE {i \in 0 .. MaxOf(a) :
            ((i \in a) # (i \in b)) # Less(LowBits(a, i), LowBits(b, i))}

\* the division proceeds by pieces of DivBits bits, most significant first
DivBits == 14

\* quotient and remainder of (a >> (DivBits * k)) by the small integer m
RECURSIVE DivFrom(_, _, _)
DivFrom(a, m, k) ==
    IF a = {} \/ DivBits * k > MaxOf(a) THEN [q |-> {}, r |-> 0]
    ELSE LET hi == DivFrom(a, m, k + 1)
             x  == hi.r * Pow2(DivBits)
                     + NatOf({b - DivBits * k :
                                b \in {y \in a : DivBits * k <= y /\ y < DivBits * (k + 1)}})
         IN  [q |-> Shl(hi.q, DivBits) \cup BitsOf(x \div m), r |-> x % m]

\* Math.floor(a / m) for a Number a >= 0 and a small integer m: the quotient
\* is rounded to a double before the floor.  With q the integer quotient
\* (below 2^52), r the remainder and f the fraction bits left in the
\* mantissa, the quotient rounds up to q + 1 iff r / m >= 1 - 2^-(f+1).
FloorOfQuotient(a, m) ==
    LET d == DivFrom(a, m, 0)
        f == IF d.q = {} THEN MantissaBits ELSE MantissaBits - (MaxOf(d.q) + 1)
    IN  IF d.r # 0 /\ d.q # {} /\ f + 1 < 17 /\ (m - d.r) * Pow2(f + 1) <= m
        THEN AddPow2(d.q, 0)
        ELSE d.q

(***************************************************************************)
(* getXENFTRarityInfo (mintInfoDecoder.js, second declaration).            *)
(***************************************************************************)
\* An object is a record; a property the object does not have is a field
\* the record does not have, and undefined is NoValue.
\* o.p is not undefined
Has(o, p) == p \in DOMAIN o

\* o.p
Get(o, p) == IF Has(o, p) THEN o[p] ELSE NoValue

\* if (o.p) for a flag: undefined is falsy
Truthy(o, p) == Has(o, p) /\ o[p]

\* o.p > n: undefined > n is false
GreaterThan(o, p, n) == Has(o, p) /\ o[p] > n

\* const { isApex, isLimited, powerGroupIdx } = xenftData.mintInfo.class;
\* a TypeError when xenftData, its mintInfo or the class is undefined
getXENFTRarityInfoThrows(xenftData) ==
    \/ xenftData = NoValue
    \/ ~Has(xenftData, "mintInfo")
    \/ ~Has(xenftData.mintInfo, "class")

\* the Apex tiers with the thresholds included in the upper tier
apexRarity_atLeast(xenftData) ==
    IF Has(xenftData, "xenBurned") /\ xenftData.xenBurned >= 10000000 THEN "Xunicorn"
    ELSE IF Has(xenftData, "xenBurned") /\ xenftData.xenBurned >= 1000000 THEN "Exotic"
    ELSE IF Has(xenftData, "xenBurned") /\ xenftData.xenBurned >= 100000 THEN "Legendary"
    ELSE IF Has(xenftData, "xenBurned") /\ xenftData.xenBurned >= 10000 THEN "Epic"
    ELSE "Rare"

\* the rarity of an Apex token, from burnedAmount = xenftData.xenBurned
apexRarity(xenftData) ==
    IF GreaterThan(xenftData, "xenBurned", 10000000) THEN "Xunicorn"
    ELSE IF GreaterThan(xenftData, "xenBurned", 1000000) THEN "Exotic"
    ELSE IF GreaterThan(xenftData, "xenBurned", 100000) THEN "Legendary"
    ELSE IF GreaterThan(xenftData, "xenBurned", 10000) THEN "Epic"
    ELSE "Rare"

\* the Common tiers with the thresholds included in the upper tier
commonRarity_atLeast(cls) ==
    IF Has(cls, "powerGroupIdx") /\ cls.powerGroupIdx >= 6 THEN "Uncommon"
    ELSE IF Has(cls, "powerGroupIdx") /\ cls.powerGroupIdx >= 3 THEN "Standard"
    ELSE "Basic"

\* the rarity of a Common token, from powerGroupIdx
commonRarity(cls) ==
    IF GreaterThan(cls, "powerGroupIdx", 6) THEN "Uncommon"
    ELSE IF GreaterThan(cls, "powerGroupIdx", 3) THEN "Standard"
    ELSE "Basic"

\* the class with isApex taken from the separately reported flag
classOf_reportedApex(xenftData) ==
    [xenftData.mintInfo.class EXCEPT !.isApex = xenftData.isApex]

\* const { isApex, isLimited, powerGroupIdx } = xenftData.mintInfo.class;
classOf(xenftData) == xenftData.mintInfo.class

\* the rules with isLimited tested before isApex
getXENFTRarityInfo_limitedFirst(xenftData) ==
    LET cls == classOf(xenftData)
    IN  IF Truthy(cls, "isLimited")
        THEN [category |-> "Limited", rarity |-> "Limited", rarityColor |-> "#C0C0C0"]
        ELSE IF Truthy(cls, "isApex")
        THEN [category    |-> "Apex",
              rarity      |-> apexRarity(xenftData),
              rarityColor |-> "#FFD700"]
        ELSE [category    |-> "Common",
              rarity      |-> commonRarity(cls),
              rarityColor |-> "#CD7F32"]

\* what getXENFTRarityInfo returns when it does not throw
getXENFTRarityInfo(xenftData) ==
    LET cls == classOf(xenftData)
    IN  IF Truthy(cls, "isApex")
        THEN [category    |-> "Apex",
              rarity      |-> apexRarity(xenftData),
              rarityColor |-> "#FFD700"]
        ELSE IF Truthy(cls, "isLimited")
        THEN [category |-> "Limited", rarity |-> "Limited", rarityColor |-> "#C0C0C0"]
        ELSE [category    |-> "Common",
              rarity      |-> commonRarity(cls),
              rarityColor |-> "#CD7F32"]

(***************************************************************************)
(* generateXENFTSVG (mintInfoDecoder.js, second declaration).  The markup  *)
(* is modelled by the values interpolated into it.  Lengths are in tenths  *)
(* (vmuCount / 10 has one decimal).  A circle is given by its index, the   *)
(* circle count and the base size, which determine its position, radius    *)
(* and opacity; the Math.random() coordinates of the background lines are  *)
(* left out, their number and colour are kept.  The date is the day number.*)
(***************************************************************************)
Min(a, b) == IF a < b THEN a ELSE b

\* the base size growing by vmuCount / 5
circleSize_fifth(vmuCount) == Min(300 + 2 * vmuCount, 1000)

\* const circleSize = Math.min(30 + vmuCount / 10, 100);  in tenths
circleSize(vmuCount) == Min(300 + vmuCount, 1000)

\* the count limited to 21
circleCount_21(vmuCount) == Min(vmuCount, 21)

\* const circleCount = Math.min(vmuCount, 20);
circleCount(vmuCount) == Min(vmuCount, 20)

\* for (let i = 0; i < circleCount; i++) circles += `<circle .../>`: the
\* circles appended from round i on.  A circle is given by its index i and
\* the divisor circleCount of its angular step 2 * Math.PI / circleCount,
\* the base size and the fill.
RECURSIVE circlesFrom(_, _, _, _)
circlesFrom(i, count, size, fill) ==
    IF i < count
    THEN <<[index |-> i, of |-> count, size |-> size, fill |-> fill]>>
            \o circlesFrom(i + 1, count, size, fill)
    ELSE <<>>

\* the density limited to 6
patternDensity_max6(vmuCount) == Min(50 + vmuCount, 300)

\* const patternDensity = Math.min(1 + vmuCount / 50, 5);  in fiftieths
patternDensity(vmuCount) == Min(50 + vmuCount, 250)

\* for (let i = 0; i < patternDensity * 20; i++): the number of rounds
patternLines(vmuCount) == (patternDensity(vmuCount) * 20 + 49) \div 50

\* the status with the comparison including equality
maturityStatus_atLeast(now, mTs) ==
    IF ~Less(BitsOf(now), mTs) THEN "Matured" ELSE "Maturing"

\* const maturityStatus = now > maturityTs ? "Matured" : "Maturing";
maturityStatus(now, mTs) == IF Less(mTs, BitsOf(now)) THEN "Matured" ELSE "Maturing"

\* const daysToMaturity = Math.max(0, Math.floor((maturityTs - now) / 86400));
daysToMaturity(now, mTs) ==
    IF ~Less(BitsOf(now), mTs) THEN {}
    ELSE FloorOfQuotient(RoundToDouble(BigSub(mTs, BitsOf(now))), 86400)

\* the day count shown also when it is 0
maturityText_always(days) == <<toString(days), "days left">>

\* ${daysToMaturity > 0 ? `${daysToMaturity} days left` : 'Ready'}
maturityText(days) == IF days # {} THEN <<toString(days), "days left">> ELSE <<"Ready">>

\* new Date().toISOString().split('T')[0]: the UTC day
isoDate(c) == c.sec \div 86400

\* the two destructurings and the call of getXENFTRarityInfo throw a
\* TypeError on undefined
generateXENFTSVGThrows(xenftData) ==
    \/ xenftData = NoValue
    \/ ~Has(xenftData, "mintInfo")
    \/ getXENFTRarityInfoThrows(xenftData)

\* what generateXENFTSVG returns when it does not throw; a tokenId that is
\* undefined is interpolated as such.  The clock is read three times: by
\* generateColorScheme() for scheme (762), by Date.now() for now (800) and by
\* new Date() for the date of the last line (821), read at the clock cDate.
generateXENFTSVGAt(xenftData, scheme, now, cDate) ==
    LET rarityInfo == getXENFTRarityInfo(xenftData)
        vmu        == xenftData.vmuCount
        mTs        == xenftData.mintInfo.maturityTs
    IN  [background  |-> scheme.background,
         pattern     |-> [lines |-> patternLines(vmu), stroke |-> scheme.tertiary],
         ring        |-> scheme.secondary,
         circles     |-> circlesFrom(0, circleCount(vmu), circleSize(vmu), scheme.primary),
         diamond     |-> rarityInfo.rarityColor,
         tokenId     |-> Get(xenftData, "tokenId"),
         vmuCount    |-> vmu,
         term        |-> xenftData.mintInfo.term,
         rank        |-> xenftData.mintInfo.rank,
         amp         |-> xenftData.mintInfo.amp,
         eaa         |-> xenftData.mintInfo.eaa,
         maturity    |-> <<maturityStatus(now, mTs)>> \o maturityText(daysToMaturity(now, mTs)),
         cycle       |-> scheme.cycleNumber + 1,
         nextCycleIn |-> scheme.daysUntilNextCycle,
         textColor   |-> scheme.primary,
         generatedOn |-> isoDate(cDate)]

\* the call during which the clock stays at c
generateXENFTSVG(xenftData, c) ==
    generateXENFTSVGAt(xenftData, generateColorScheme(c), DateNowSeconds(c), c)

(***************************************************************************)
(* generateErrorSVG (mintInfoDecoder.js, declared once).  A message is     *)
(* [text |-> s] for the string s, or NoValue for undefined.                *)
(***************************************************************************)
\* the message interpolated as it is
generateErrorSVG_noPlaceholder(message, c) ==
    [title       |-> "SVG Generation Error",
     message     |-> IF Has(message, "text") THEN message.text ELSE "undefined",
     generatedOn |-> isoDate(c)]

\* ${errorMessage || "Unknown error"}: undefined and "" are falsy
generateErrorSVG(message, c) ==
    [title       |-> "SVG Generation Error",
     message     |-> IF Has(message, "text") /\ message.text # ""
                     THEN message.text ELSE "Unknown error",
     generatedOn |-> isoDate(c)]

(***************************************************************************)
(* SpecCycle: the clock advances by days and by 30-day periods, and        *)
(* generateColorScheme is called at any moment.                            *)
(***************************************************************************)
LastSecond == (StartDay + MaxDays) * 86400 + 86399

InitCycle ==
    /\ clock \in {[sec |-> StartDay * 86400, ms |-> 0],
                  [sec |-> StartDay * 86400 + 86399, ms |-> 999]}
    /\ colorScheme = NotCalled
    /\ mintInfoValue = [kind |-> "bigint", bits |-> {}]
    /\ decoded = NotDecoded
    /\ PageLoaded
    /\ CoreIdle

\* time passes: d days
Tick(d) ==
    /\ clock.sec + d * 86400 <= LastSecond
    /\ clock' = [clock EXCEPT !.sec = @ + d * 86400]
    /\ UNCHANGED <<colorScheme, mintInfoValue, decoded, appVars, coreVars>>

DayPasses == Tick(1)

PeriodPasses == Tick(30)

\* a caller (updateColorCycleInfo, generateXENFTSVG) asks for the scheme
CallGenerateColorScheme ==
    /\ colorScheme' = [called |-> TRUE,
                       now    |-> clock.sec,
                       result |-> generateColorScheme(clock)]
    /\ UNCHANGED <<clock, mintInfoValue, decoded, appVars, coreVars>>

NextCycle == DayPasses \/ PeriodPasses \/ CallGenerateColorScheme

SpecCycle == InitCycle /\ [][NextCycle]_vars

\* the palette part of a returned scheme
Palette(r) == <<r.primary, r.secondary, r.tertiary, r.background>>

\* whole days since the epoch at second s
WholeDays(s) == s \div 86400

(***************************************************************************)
(* Claims about generateColorScheme, checked under SpecCycle.              *)
(***************************************************************************)

\* the cycle index returned at an instant is floor(days / 30) mod 12, in 0..11
IndexFormula ==
    colorScheme.called =>
        /\ colorScheme.result.cycleNumber \in 0 .. 11
        /\ colorScheme.result.cycleNumber = (WholeDays(colorScheme.now) \div 30) % 12

\* C8: at every instant the cycle index is floor(daysSinceEpoch / 30) mod 12,
\* in 0..11, and when time advances by 30 days the index moves from k to
\* k + 1, and from 11 back to 0.
C8_CycleSteps ==
    /\ []IndexFormula
    /\ [][clock'.sec = clock.sec + 30 * 86400 =>
             generateColorScheme(clock').cycleNumber =
               IF generateColorScheme(clock).cycleNumber = 11 THEN 0
               ELSE generateColorScheme(clock).cycleNumber + 1]_vars

C8_Witness ==
    /\ colorScheme.called
    /\ colorScheme.result.cycleNumber = 0
    /\ clock.sec >= colorScheme.now + 150 * 86400
    /\ generateColorScheme(clock).cycleNumber = 5

\* C9: daysUntilNextCycle is 30 - (daysSinceEpoch mod 30), always in 1..30
\* and never 0; it is 30 exactly on the days where daysSinceEpoch mod 30 = 0.
C9_DaysUntilNextCycle ==
    colorScheme.called =>
        LET days == WholeDays(colorScheme.now)
            n    == colorScheme.result.daysUntilNextCycle
        IN  /\ n \in 1 .. 30
            /\ (days + n) % 30 = 0
            /\ (n = 30) <=> (days % 30 = 0)

C9_Witness ==
    /\ colorScheme.called
    /\ WholeDays(colorScheme.now) % 30 = 0
    /\ colorScheme.result.daysUntilNextCycle = 30

\* C10: when a call of generateColorScheme follows one made in the previous
\* cycle (index k, then (k + 1) mod 12) the palette it returns differs, for
\* every k; when the cycle index is the same, so is the palette.
C10_PaletteChanges ==
    [][(colorScheme.called /\ colorScheme'.called) =>
          LET k  == colorScheme.result.cycleNumber
              k2 == colorScheme'.result.cycleNumber
          IN  /\ (k2 = (k + 1) % 12 =>
                    Palette(colorScheme'.result) # Palette(colorScheme.result))
              /\ (k2 = k =>
                    Palette(colorScheme'.result) = Palette(colorScheme.result))]_vars

C10_Witness ==
    /\ colorScheme.called
    /\ colorScheme.result.cycleNumber = 11
    /\ generateColorScheme(clock).cycleNumber = 0
    /\ Palette(generateColorScheme(clock)) # Palette(colorScheme.result)

(***************************************************************************)
(* SpecClassify: getXENFTRarityInfo applied to every asset of              *)
(* ClassifyInputs.                                                         *)
(***************************************************************************)
\* const powerGroupIdx = classValue & 0x3F: the largest power group
MaxPowerGroupIdx == 63

\* burned amounts on, next to and between the thresholds of the Apex tiers
BurnedAmounts == {0, 5000, 10000, 10001, 100000, 100001, 1000000, 1000001,
                  10000000, 10000001, 15000000}

ClassValues == [isApex : BOOLEAN, isLimited : BOOLEAN,
                powerGroupIdx : 0 .. MaxPowerGroupIdx]

\* a DecodedMintInfo with the class cls
MintInfoWith(cls) ==
    [term |-> 100, maturityTs |-> {}, rank |-> <<0>>, amp |-> 3000, eaa |-> 100,
     class |-> cls, redeemed |-> FALSE]

\* the object fetchAndRenderXenft builds (app.js), fields from the chain
XenftAsset(cls, burned, apexRead) ==
    [tokenId |-> 1, vmuCount |-> 1, mintInfo |-> MintInfoWith(cls),
     xenBurned |-> burned, isApex |-> apexRead]

\* no asset, an asset without mintInfo, a mintInfo without class, a class
\* without its flags, a class without its power group
MalformedAssets ==
    {NoValue,
     [tokenId |-> 1, vmuCount |-> 1, xenBurned |-> 0, isApex |-> FALSE],
     [tokenId |-> 1, vmuCount |-> 1, xenBurned |-> 0, isApex |-> FALSE,
      mintInfo |-> [term |-> 100, maturityTs |-> {}, rank |-> <<0>>, amp |-> 3000,
                    eaa |-> 100, redeemed |-> FALSE]],
     [tokenId |-> 1, vmuCount |-> 1, xenBurned |-> 0, isApex |-> FALSE,
      mintInfo |-> MintInfoWith([powerGroupIdx |-> 8])],
     [tokenId |-> 1, vmuCount |-> 1, xenBurned |-> 20000, isApex |-> TRUE,
      mintInfo |-> MintInfoWith([isApex |-> TRUE, isLimited |-> FALSE])]}

ClassifyInputs ==
    {XenftAsset(cls, b, cls.isApex) : cls \in ClassValues, b \in BurnedAmounts}
        \cup {XenftAsset(cls, 20000, ~cls.isApex) : cls \in ClassValues}
        \cup MalformedAssets

InitClassify ==
    /\ callArg \in ClassifyInputs
    /\ callResult = NoCall
    /\ mintInfoValue = [kind |-> "bigint", bits |-> {}]
    /\ decoded = NotDecoded
    /\ clock = ClockIdle
    /\ colorScheme = NotCalled
    /\ PageLoaded

\* getXENFTRarityInfo(callArg)
CallGetXENFTRarityInfo ==
    /\ callResult.fn = "none"
    /\ callResult' = [fn    |-> "getXENFTRarityInfo",
                      threw |-> getXENFTRarityInfoThrows(callArg),
                      value |-> IF getXENFTRarityInfoThrows(callArg) THEN NoValue
                                ELSE getXENFTRarityInfo(callArg)]
    /\ UNCHANGED <<callArg, mintInfoValue, decoded, clock, colorScheme, appVars>>

NextClassify == CallGetXENFTRarityInfo

SpecClassify == InitClassify /\ [][NextClassify]_vars

\* the asset has a mintInfo with a class that has its three fields, and a
\* burned amount
WellFormedAsset(a) ==
    /\ a # NoValue
    /\ Has(a, "mintInfo") /\ Has(a, "xenBurned")
    /\ Has(a.mintInfo, "class")
    /\ {"isApex", "isLimited", "powerGroupIdx"} \subseteq DOMAIN a.mintInfo.class

\* getXENFTRarityInfo was called on a well-formed asset
Classified ==
    callResult.fn = "getXENFTRarityInfo" /\ WellFormedAsset(callArg)

(***************************************************************************)
(* Claims about getXENFTRarityInfo, checked under SpecClassify.            *)
(***************************************************************************)

\* C12: for an asset whose class has isApex set the result is category Apex,
\* gold, with the rarity Xunicorn above 10,000,000 burned, Exotic above
\* 1,000,000, Legendary above 100,000, Epic above 10,000 and Rare otherwise;
\* an amount equal to a threshold is in the lower tier.
C12_ApexTiers ==
    (Classified /\ callArg.mintInfo.class.isApex) =>
        LET b == callArg.xenBurned
        IN  /\ ~callResult.threw
            /\ callResult.value.category = "Apex"
            /\ callResult.value.rarityColor = "#FFD700"
            /\ (b \in 0 .. 10000 <=> callResult.value.rarity = "Rare")
            /\ (b \in 10001 .. 100000 <=> callResult.value.rarity = "Epic")
            /\ (b \in 100001 .. 1000000 <=> callResult.value.rarity = "Legendary")
            /\ (b \in 1000001 .. 10000000 <=> callResult.value.rarity = "Exotic")
            /\ (b >= 10000001 <=> callResult.value.rarity = "Xunicorn")

C12_Witness ==
    /\ Classified
    /\ callArg.mintInfo.class.isApex
    /\ callArg.xenBurned = 10000000
    /\ callResult.value.rarity = "Exotic"

\* C13: the category is Apex exactly when isApex is set, Limited (rarity
\* Limited, silver) exactly when isApex is not set and isLimited is, and
\* Common exactly when neither is set, whatever the power group and the
\* burned amount; isApex wins when both flags are set.
C13_ExclusiveCategories ==
    Classified =>
        LET cls == callArg.mintInfo.class
            r   == callResult.value
        IN  /\ ~callResult.threw
            /\ r.category \in {"Apex", "Limited", "Common"}
            /\ (r.category = "Apex" <=> cls.isApex)
            /\ (r.category = "Limited" <=> (~cls.isApex /\ cls.isLimited))
            /\ (r.category = "Common" <=> (~cls.isApex /\ ~cls.isLimited))
            /\ (r.category = "Limited" =>
                    r.rarity = "Limited" /\ r.rarityColor = "#C0C0C0")

C13_Witness ==
    /\ Classified
    /\ callArg.mintInfo.class.isApex
    /\ callArg.mintInfo.class.isLimited
    /\ callResult.value.category = "Apex"

\* C14: with neither isApex nor isLimited set the result is category Common,
\* bronze, with the rarity Uncommon for a power group above 6, Standard for
\* 4..6 and Basic for 0..3, for every power group in 0..63.
C14_CommonTiers ==
    (Classified /\ ~callArg.mintInfo.class.isApex /\ ~callArg.mintInfo.class.isLimited) =>
        LET g == callArg.mintInfo.class.powerGroupIdx
        IN  /\ ~callResult.threw
            /\ callResult.value.category = "Common"
            /\ callResult.value.rarityColor = "#CD7F32"
            /\ (g \in 0 .. 3 <=> callResult.value.rarity = "Basic")
            /\ (g \in 4 .. 6 <=> callResult.value.rarity = "Standard")
            /\ (g >= 7 <=> callResult.value.rarity = "Uncommon")

C14_Witness ==
    /\ Classified
    /\ ~callArg.mintInfo.class.isApex /\ ~callArg.mintInfo.class.isLimited
    /\ callArg.mintInfo.class.powerGroupIdx = 6
    /\ callResult.value.rarity = "Standard"

\* C15: when the asset, its mintInfo or its class flags are absent or
\* malformed, getXENFTRarityInfo does not raise: it returns category Unknown,
\* rarity Unknown and the gray #CCCCCC.
C15_UnknownOnMalformed ==
    (callResult.fn = "getXENFTRarityInfo" /\ ~WellFormedAsset(callArg)) =>
        /\ ~callResult.threw
        /\ callResult.value =
             [category |-> "Unknown", rarity |-> "Unknown", rarityColor |-> "#CCCCCC"]

\* the asset with the separately reported isApex flag inverted
WithOtherReport(a) == [a EXCEPT !.isApex = ~a.isApex]

MaxVmu == 25

VmuInputs == (0 .. MaxVmu) \cup {199, 200, 201, 500, 699, 700, 701}

\* the moments of the calls: the first and the last second of a day
ComposeClocks == {ClockIdle, [sec |-> StartDay * 86400 + 86399, ms |-> 999]}

\* maturity timestamps before, at and after the second now, 0, and the value
\* 2^64 that decodeMintInfo returns
MaturityInputs(now) ==
    {{}, {64}} \cup
    {BitsOf(now + d) : d \in {0 - 86401, 0 - 1, 0, 1, 86399, 86400, 86401, 864000}}

CommonClass == [isApex |-> FALSE, isLimited |-> FALSE, powerGroupIdx |-> 0]

ComposeAssets(now) ==
    {[tokenId |-> 7, vmuCount |-> v, xenBurned |-> 0, isApex |-> FALSE,
      mintInfo |-> [MintInfoWith(CommonClass) EXCEPT !.maturityTs = m]] :
        v \in VmuInputs, m \in MaturityInputs(now)}

\* assets without a tokenId, an asset without mintInfo, and no asset
AssetsWithoutTokenId(now) ==
    {[vmuCount |-> v, xenBurned |-> 0, isApex |-> FALSE,
      mintInfo |-> [MintInfoWith(CommonClass) EXCEPT !.maturityTs = m]] :
        v \in {0, 5}, m \in MaturityInputs(now)}
      \cup {[vmuCount |-> 5, xenBurned |-> 0, isApex |-> FALSE], NoValue}

ComposeInputs(now) == ComposeAssets(now) \cup AssetsWithoutTokenId(now)

\* undefined, the empty string, and the two messages generateXENFTSVG's
\* first declaration passes
ErrorMessages ==
    {NoValue, [text |-> ""], [text |-> "Invalid XENFT data"],
     [text |-> "Cannot read properties of undefined"]}

InitCompose ==
    /\ clock \in ComposeClocks
    /\ callArg \in ComposeInputs(clock.sec) \cup ErrorMessages
    /\ callResult = NoCall
    /\ mintInfoValue = [kind |-> "bigint", bits |-> {}]
    /\ decoded = NotDecoded
    /\ colorScheme = NotCalled
    /\ PageLoaded

\* generateXENFTSVG(callArg)
CallGenerateXENFTSVG ==
    /\ callResult.fn = "none"
    /\ ~Has(callArg, "text")
    /\ callResult' = [fn    |-> "generateXENFTSVG",
                      threw |-> generateXENFTSVGThrows(callArg),
                      value |-> IF generateXENFTSVGThrows(callArg) THEN NoValue
                                ELSE generateXENFTSVG(callArg, clock)]
    /\ UNCHANGED <<callArg, mintInfoValue, decoded, clock, colorScheme, appVars>>

\* generateErrorSVG(callArg)
CallGenerateErrorSVG ==
    /\ callResult.fn = "none"
    /\ callArg = NoValue \/ Has(callArg, "text")
    /\ callResult' = [fn    |-> "generateErrorSVG",
                      threw |-> FALSE,
                      value |-> generateErrorSVG(callArg, clock)]
    /\ UNCHANGED <<callArg, mintInfoValue, decoded, clock, colorScheme, appVars>>

NextCompose == CallGenerateXENFTSVG \/ CallGenerateErrorSVG

SpecCompose == InitCompose /\ [][NextCompose]_vars

\* generateXENFTSVG returned an image
Composed == callResult.fn = "generateXENFTSVG" /\ ~callResult.threw

\* the parts of the image generateXENFTSVG returns
NormalLayers ==
    {"background", "pattern", "ring", "circles", "diamond", "tokenId", "vmuCount",
     "term", "rank", "amp", "eaa", "maturity", "cycle", "nextCycleIn", "textColor",
     "generatedOn"}

(***************************************************************************)
(* Claims about generateXENFTSVG and generateErrorSVG, checked under       *)
(* SpecCompose.  Sizes are in tenths: 1000 is the radius 100.              *)
(***************************************************************************)

\* C16 as stated: with vmuCount = 500 the circle radius is clamped to 100 and
\* the circle count to 20.
C16_Clamp500 ==
    (Composed /\ callArg.vmuCount = 500) =>
        /\ Len(callResult.value.circles) = 20
        /\ \A k \in 1 .. Len(callResult.value.circles) :
              callResult.value.circles[k].size = 1000

\* C16 amended: with vmuCount = 500 the circle count is clamped to 20 and the
\* circle radius is 80 = 30 + 500 / 10, below the clamp; the radius is
\* clamped to 100 from vmuCount = 700 on.
C16_Radius500 ==
    Composed =>
        LET v  == callArg.vmuCount
            cs == callResult.value.circles
        IN  /\ (v = 500 => Len(cs) = 20 /\ \A k \in 1 .. Len(cs) : cs[k].size = 800)
            /\ (v >= 700 => Len(cs) = 20 /\ \A k \in 1 .. Len(cs) : cs[k].size = 1000)
            /\ (v < 700 => \A k \in 1 .. Len(cs) : cs[k].size = 300 + v)

C16_Witness ==
    /\ Composed
    /\ callArg.vmuCount = 500
    /\ Len(callResult.value.circles) = 20
    /\ callResult.value.circles[20].size = 800

\* C17: for every vmuCount >= 0 the image has exactly min(vmuCount, 20)
\* circles, numbered from 0, and no circle has an angular step divided by 0;
\* with vmuCount = 0 there is no circle and the image still has every other
\* layer.
C17_CircleCount ==
    Composed =>
        LET v  == callArg.vmuCount
            cs == callResult.value.circles
        IN  /\ Len(cs) = (IF v < 20 THEN v ELSE 20)
            /\ \A k \in 1 .. Len(cs) :
                  cs[k].index = k - 1 /\ cs[k].of = Len(cs) /\ cs[k].of # 0
            /\ DOMAIN callResult.value = NormalLayers
            /\ (v = 0 => cs = <<>> /\ callResult.value.pattern.lines = 20)

C17_Witness ==
    /\ Composed
    /\ callArg.vmuCount = 0
    /\ callResult.value.circles = <<>>
    /\ callResult.value.vmuCount = 0

\* C18: generateXENFTSVG called with an asset that has no tokenId, or with no
\* asset, returns the image of generateErrorSVG and nothing else: it neither
\* throws nor returns an image with the normal layers.
C18_ErrorImageWithoutTokenId ==
    (callResult.fn = "generateXENFTSVG"
        /\ (callArg = NoValue \/ ~Has(callArg, "tokenId"))) =>
        /\ ~callResult.threw
        /\ \E m \in ErrorMessages : callResult.value = generateErrorSVG(m, clock)

\* C19: the status is Matured exactly when now > maturityTs and Maturing
\* otherwise, also when now = maturityTs, and the days shown are
\* max(0, floor((maturityTs - now) / 86400)), never negative: the line reads
\* "<days> days left" when that is positive and "Ready" when it is 0.  The
\* day count is checked for timestamps below 2^31, the status and the sign
\* also for 2^64.
C19_MaturityLine ==
    Composed =>
        LET now  == clock.sec
            mTs  == callArg.mintInfo.maturityTs
            line == callResult.value.maturity
        IN  IF mTs = {} \/ MaxOf(mTs) < 31
            THEN LET m == NatOf(mTs)
                     d == IF m > now THEN (m - now) \div 86400 ELSE 0
                 IN  /\ line[1] = (IF now > m THEN "Matured" ELSE "Maturing")
                     /\ d >= 0
                     /\ IF d > 0
                        THEN /\ Len(line) = 3
                             /\ line[2] = toString(BitsOf(d))
                             /\ line[3] = "days left"
                        ELSE /\ Len(line) = 2
                             /\ line[2] = "Ready"
            ELSE /\ line[1] = "Maturing"
                 /\ Len(line) = 3
                 /\ line[3] = "days left"

C19_Witness ==
    /\ Composed
    /\ callArg.mintInfo.maturityTs = BitsOf(clock.sec)
    /\ callResult.value.maturity = <<"Maturing", "Ready">>

\* C20: generateErrorSVG returns, for every message, the image with the
\* title, the message and the date, and nothing else; an empty or absent
\* message is replaced by "Unknown error"; it does not throw.
C20_ErrorImage ==
    callResult.fn = "generateErrorSVG" =>
        /\ ~callResult.threw
        /\ DOMAIN callResult.value = {"title", "message", "generatedOn"}
        /\ callResult.value.title = "SVG Generation Error"
        /\ callResult.value.generatedOn = clock.sec \div 86400
        /\ callResult.value.message =
             (IF callArg = NoValue \/ callArg = [text |-> ""] THEN "Unknown error"
              ELSE callArg.text)

C20_Witness ==
    /\ callResult.fn = "generateErrorSVG"
    /\ callArg = [text |-> ""]
    /\ callResult.value.message = "Unknown error"

\* C24 as stated: the number of background lines equals patternDensity * 20
\* with patternDensity = min(1 + vmuCount / 50, 5); it is 20 for vmuCount = 0,
\* at most 100, and 100 for every vmuCount >= 200.  (In fiftieths:
\* 50 * lines = 20 * min(50 + vmuCount, 250).)
C24_LinesEqualDensityTimes20 ==
    Composed =>
        LET v == callArg.vmuCount
            n == callResult.value.pattern.lines
        IN  /\ 50 * n = 20 * (IF 50 + v < 250 THEN 50 + v ELSE 250)
            /\ (v = 0 => n = 20)
            /\ n <= 100
            /\ (v >= 200 => n = 100)

\* C24 amended: the number of background lines is patternDensity * 20 rounded
\* up to a whole number (the loop runs while i < patternDensity * 20); it is
\* 20 for vmuCount = 0, at most 100, and 100 for every vmuCount >= 200.
C24_LinesRoundedUp ==
    Composed =>
        LET v  == callArg.vmuCount
            n  == callResult.value.pattern.lines
            pd == IF 50 + v < 250 THEN 50 + v ELSE 250
        IN  /\ 50 * n >= 20 * pd
            /\ 50 * (n - 1) < 20 * pd
            /\ (v = 0 => n = 20)
            /\ n <= 100
            /\ (v >= 200 => n = 100)

C24_Witness ==
    /\ Composed
    /\ callArg.vmuCount = 1
    /\ callResult.value.pattern.lines = 21

\* C30: the maturity line reads "<N> days left" exactly when
\* maturityTs - now >= 86400, with N = floor((maturityTs - now) / 86400), and
\* "Ready" otherwise: "Maturing: Ready" with less than a day left,
\* "Matured: Ready" for a matured token.  N is checked for timestamps below
\* 2^31.
C30_DaysLeftOrReady ==
    Composed =>
        LET now  == clock.sec
            mTs  == callArg.mintInfo.maturityTs
            line == callResult.value.maturity
        IN  IF mTs = {} \/ MaxOf(mTs) < 31
            THEN LET m == NatOf(mTs)
                 IN  /\ (m - now >= 86400) <=> (Len(line) = 3 /\ line[3] = "days left")
                     /\ (m - now >= 86400) =>
                            line[2] = toString(BitsOf((m - now) \div 86400))
                     /\ (m - now < 86400) => (Len(line) = 2 /\ line[2] = "Ready")
                     /\ (m - now < 86400 /\ m >= now) => line = <<"Maturing", "Ready">>
                     /\ (m < now) => line = <<"Matured", "Ready">>
            ELSE Len(line) = 3 /\ line[3] = "days left"

C30_Witness ==
    /\ Composed
    /\ callArg.mintInfo.maturityTs = BitsOf(clock.sec + 86399)
    /\ callResult.value.maturity = <<"Maturing", "Ready">>

(***************************************************************************)
(* SpecComposeClock: one call of generateXENFTSVG with the clock running.  *)
(* The call reads the clock at three places, and seconds may pass between  *)
(* them.  callResult holds the position of the call and what it has read.  *)
(***************************************************************************)
\* the seconds that may pass after the last second of the start day
MaxSeconds == 2

EndOfStartDay == StartDay * 86400 + 86399

ClockAssets(now) ==
    {[tokenId |-> 7, vmuCount |-> 5, xenBurned |-> 0, isApex |-> FALSE,
      mintInfo |-> [MintInfoWith(CommonClass) EXCEPT !.maturityTs = m]] :
        m \in MaturityInputs(now)}

InitComposeClock ==
    /\ clock \in {[sec |-> EndOfStartDay - 1, ms |-> 0], [sec |-> EndOfStartDay, ms |-> 0]}
    /\ callArg \in ClockAssets(EndOfStartDay)
    /\ callResult = NoCall
    /\ mintInfoValue = [kind |-> "bigint", bits |-> {}]
    /\ decoded = NotDecoded
    /\ colorScheme = NotCalled
    /\ PageLoaded

\* a second passes, before, during or after the call
SecondPasses ==
    /\ clock.sec < EndOfStartDay + MaxSeconds
    /\ clock' = [clock EXCEPT !.sec = @ + 1]
    /\ UNCHANGED <<callArg, callResult, mintInfoValue, decoded, colorScheme, appVars>>

\* const colorScheme = generateColorScheme();
ReadColorScheme ==
    /\ callResult.fn = "none"
    /\ callResult' = [fn |-> "generateXENFTSVG", pc |-> "now",
                      first |-> clock.sec,
                      scheme |-> generateColorScheme(clock)]
    /\ UNCHANGED <<callArg, clock, mintInfoValue, decoded, colorScheme, appVars>>

\* const now = Math.floor(Date.now() / 1000);
ReadNow ==
    /\ callResult.fn = "generateXENFTSVG" /\ callResult.pc = "now"
    /\ callResult' = [fn |-> "generateXENFTSVG", pc |-> "date",
                      first |-> callResult.first,
                      scheme |-> callResult.scheme,
                      now |-> DateNowSeconds(clock)]
    /\ UNCHANGED <<callArg, clock, mintInfoValue, decoded, colorScheme, appVars>>

\* Generated on ${new Date().toISOString().split('T')[0]}, and the return
ReadDateAndReturn ==
    /\ callResult.fn = "generateXENFTSVG" /\ callResult.pc = "date"
    /\ callResult' = [fn |-> "generateXENFTSVG", pc |-> "done",
                      first |-> callResult.first,
                      last  |-> clock.sec,
                      value |-> generateXENFTSVGAt(callArg, callResult.scheme,
                                                   callResult.now, clock)]
    /\ UNCHANGED <<callArg, clock, mintInfoValue, decoded, colorScheme, appVars>>

NextComposeClock == SecondPasses \/ ReadColorScheme \/ ReadNow \/ ReadDateAndReturn

SpecComposeClock == InitComposeClock /\ [][NextComposeClock]_vars

\* C28: every time-dependent part of the image returned by one call (palette,
\* cycle number and countdown, maturity status and days left, generated-on
\* date) is derived from one instant: the image is the one of some single
\* second between the start and the end of the call.
C28_OneInstant ==
    (callResult.fn = "generateXENFTSVG" /\ callResult.pc = "done") =>
        \E sec \in callResult.first .. callResult.last :
            callResult.value = generateXENFTSVG(callArg, [sec |-> sec, ms |-> 0])

(***************************************************************************)
(* helper.js: the gallery store.  helper.js is loaded after                *)
(* mintInfoDecoder.js, so its saveXENFTToLocalStorage is the effective one *)
(* and the store is the localStorage item 'savedXENFTs', a JSON array,     *)
(* modelled as the sequence of the records JSON.parse returns.  The        *)
(* records hold numbers and strings, which JSON.stringify and JSON.parse   *)
(* return unchanged.                                                       *)
(***************************************************************************)
\* findIndex that finds nothing
findIndex_never(items, tokenId) == 0

\* savedXENFTs.findIndex(item => item.tokenId === xenftData.tokenId): the
\* first index with that tokenId; 0 stands for -1
findIndex(items, tokenId) ==
    IF \E i \in 1 .. Len(items) : items[i].tokenId = tokenId
    THEN CHOOSE i \in 1 .. Len(items) :
            /\ items[i].tokenId = tokenId
            /\ \A j \in 1 .. (i - 1) : items[j].tokenId # tokenId
    ELSE 0

\* xenftData.mintInfo.term and getXENFTRarityInfo(xenftData) throw a TypeError
\* on an asset without mintInfo or without its class
dataToSaveThrows(xenftData) ==
    \/ xenftData = NoValue
    \/ ~Has(xenftData, "mintInfo")
    \/ getXENFTRarityInfoThrows(xenftData)

\* const dataToSave = {...}
dataToSave(xenftData, svgContent, c) ==
    [tokenId   |-> xenftData.tokenId,
     vmuCount  |-> xenftData.vmuCount,
     term      |-> xenftData.mintInfo.term,
     xenBurned |-> xenftData.xenBurned,
     svg       |-> svgContent,
     category  |-> getXENFTRarityInfo(xenftData).category,
     rarity    |-> getXENFTRarityInfo(xenftData).rarity,
     savedAt   |-> c]

\* what saveXENFTToLocalStorage leaves in the store and returns
saveXENFTToLocalStorage(items, xenftData, svgContent, c) ==
    IF dataToSaveThrows(xenftData)
    THEN [store |-> items, value |-> FALSE]
    ELSE LET existingIndex == findIndex(items, xenftData.tokenId)
         IN  [store |-> IF existingIndex > 0
                        THEN [items EXCEPT ![existingIndex] =
                                               dataToSave(xenftData, svgContent, c)]
                        ELSE Append(items, dataToSave(xenftData, svgContent, c)),
              value |-> TRUE]

\* savedXENFTs.filter(item => item.tokenId !== tokenId)
removeSavedXENFT(items, tokenId) ==
    SelectSeq(items, LAMBDA item : item.tokenId # tokenId)

(***************************************************************************)
(* SpecGallery: any sequence of saves and removals on the store.           *)
(* callArg and callResult hold the last operation.                         *)
(***************************************************************************)
\* the token ids saved and removed
MaxGalleryTokens == 2

GalleryTokens == 1 .. MaxGalleryTokens

\* the images saved for a token
SvgContents == {"<svg>A</svg>", "<svg>B</svg>"}

\* the assets of a token: a Common and an Apex one as fetchAndRenderXenft
\* builds them, and the one the save button of index.html builds, whose
\* mintInfo holds the term only
GalleryAssets(t) ==
    {[tokenId |-> t, vmuCount |-> 1, xenBurned |-> 0, isApex |-> FALSE,
      mintInfo |-> MintInfoWith(CommonClass)],
     [tokenId |-> t, vmuCount |-> 1, xenBurned |-> 20000, isApex |-> TRUE,
      mintInfo |-> MintInfoWith([isApex |-> TRUE, isLimited |-> FALSE,
                                 powerGroupIdx |-> 0])],
     [tokenId |-> t, vmuCount |-> 1, xenBurned |-> 0, isApex |-> FALSE,
      mintInfo |-> [term |-> 100]]}

InitGallery ==
    /\ clock = ClockIdle
    /\ callArg = NoValue
    /\ callResult = NoCall
    /\ mintInfoValue = [kind |-> "bigint", bits |-> {}]
    /\ decoded = NotDecoded
    /\ colorScheme = NotCalled
    /\ PageLoaded

galleryFrame ==
    <<mintInfoValue, decoded, clock, colorScheme, xenftContract, currentTokenId,
      calls, loadingMessage, errorMessage, xenftCardContainer, svgContainer,
      tokenInfo, sessionVars>>

\* saveXENFTToLocalStorage(xenftData, svgContent)
Save(xenftData, svgContent) ==
    /\ savedXENFTs' =
          saveXENFTToLocalStorage(savedXENFTs, xenftData, svgContent, clock.sec).store
    /\ callArg' = [xenftData |-> xenftData, svgContent |-> svgContent]
    /\ callResult' =
          [fn    |-> "saveXENFTToLocalStorage",
           threw |-> FALSE,
           value |-> saveXENFTToLocalStorage(savedXENFTs, xenftData, svgContent,
                                             clock.sec).value]
    /\ UNCHANGED galleryFrame

\* localStorage.setItem throws (the quota is exceeded): the catch returns
\* false and the store is as before
SaveOverQuota(xenftData, svgContent) ==
    /\ callArg' = [xenftData |-> xenftData, svgContent |-> svgContent]
    /\ callResult' = [fn |-> "saveXENFTToLocalStorage", threw |-> FALSE,
                      value |-> FALSE]
    /\ UNCHANGED <<savedXENFTs, galleryFrame>>

\* removeSavedXENFT(tokenId), from the Remove button of the gallery
Remove(tokenId) ==
    /\ savedXENFTs' = removeSavedXENFT(savedXENFTs, tokenId)
    /\ callArg' = [tokenId |-> tokenId]
    /\ callResult' = [fn |-> "removeSavedXENFT", threw |-> FALSE, value |-> TRUE]
    /\ UNCHANGED galleryFrame

NextGallery ==
    \/ \E t \in GalleryTokens, svgContent \in SvgContents :
          \E xenftData \in GalleryAssets(t) : Save(xenftData, svgContent)
    \/ \E t \in GalleryTokens, svgContent \in SvgContents :
          \E xenftData \in GalleryAssets(t) : SaveOverQuota(xenftData, svgContent)
    \/ \E t \in GalleryTokens : Remove(t)

SpecGallery == InitGallery /\ [][NextGallery]_vars

\* the records of the store with the tokenId t
RecordsOf(items, t) == {i \in 1 .. Len(items) : items[i].tokenId = t}

\* the record of the tokenId t, when there is one
RecordOf(items, t) ==
    IF RecordsOf(items, t) = {} THEN NoValue
    ELSE items[CHOOSE i \in RecordsOf(items, t) : TRUE]

\* the last operation was a save of the token t that returned true
SavedNow(t) ==
    /\ callResult'.fn = "saveXENFTToLocalStorage" /\ callResult'.value
    /\ callArg'.xenftData.tokenId = t

\* the last operation was the removal of the token t
RemovedNow(t) ==
    callResult'.fn = "removeSavedXENFT" /\ callArg'.tokenId = t

\* C23: the store is keyed by tokenId with last-write-wins: it never holds
\* two records with one tokenId; a save that succeeds makes the record of its
\* tokenId the one just written (its image and its data); a removal leaves no
\* record of its tokenId; and no operation changes the record of any other
\* tokenId, so the record of a tokenId is that of its most recent save since
\* its last removal.
C23_LastWriteWins ==
    /\ [](\A t \in GalleryTokens : Cardinality(RecordsOf(savedXENFTs, t)) <= 1)
    /\ [][\A t \in GalleryTokens :
            IF SavedNow(t)
            THEN /\ RecordOf(savedXENFTs', t) # NoValue
                 /\ RecordOf(savedXENFTs', t).svg = callArg'.svgContent
                 /\ RecordOf(savedXENFTs', t).xenBurned = callArg'.xenftData.xenBurned
                 /\ RecordOf(savedXENFTs', t).term = callArg'.xenftData.mintInfo.term
            ELSE IF RemovedNow(t)
            THEN RecordOf(savedXENFTs', t) = NoValue
            ELSE RecordOf(savedXENFTs', t) = RecordOf(savedXENFTs, t)]_vars

\* the record of token 1 has been overwritten in place, with the record of
\* token 2, saved in between, still after it
C23_Witness ==
    /\ callResult.fn = "saveXENFTToLocalStorage" /\ callResult.value
    /\ callArg.xenftData.tokenId = 1
    /\ callArg.svgContent = "<svg>B</svg>"
    /\ Len(savedXENFTs) = 2
    /\ savedXENFTs[1].tokenId = 1 /\ savedXENFTs[1].svg = "<svg>B</svg>"
    /\ savedXENFTs[1].category = "Apex"
    /\ savedXENFTs[2].tokenId = 2 /\ savedXENFTs[2].svg = "<svg>A</svg>"

(***************************************************************************)
(* app.js: handleViewToken, fetchAndRenderXenft, displayXENFT.             *)
(* A call of fetchAndRenderXenft stops at each of its four awaits; its     *)
(* record holds the await it is at and the values it has received.         *)
(***************************************************************************)
\* what the token id field may hold: 0 stands for an entry that parseInt
\* turns into NaN or a number <= 0
TokenInputs == {0, 1, 2}

\* what the chain answers
VmuCountValues == {25}

XenBurnedValues == {20000}

MintInfoValues ==
    {[kind |-> "malformed", bits |-> {}],
     [kind |-> "bigint", bits |-> Pack(100, 1893456000, 2000000001, 1, 10, 128 + 5, 1)]}

\* what ownedTokens() answers for the account
OwnedTokensValues == {<<>>, <<2>>}

\* showLoading(isLoading)
showLoading(isLoading) == [hidden |-> ~isLoading, buttonsDisabled |-> isLoading]

\* showError(message)
showError(message) == [hidden |-> FALSE, textContent |-> message]

\* hideError(): the text stays
hideError(line) == [line EXCEPT !.hidden = TRUE]

\* the page as loaded: init() connects nothing
InitFetch ==
    /\ PageLoaded
    /\ clock = ClockIdle
    /\ colorScheme = NotCalled
    /\ mintInfoValue = [kind |-> "bigint", bits |-> {}]
    /\ decoded = NotDecoded
    /\ CoreIdle

\* what the token handlers and fetchAndRenderXenft leave alone
otherVars ==
    <<mintInfoValue, decoded, clock, colorScheme, coreVars, sessionVars, savedXENFTs>>

\* what connectWallet, connectToRPC and disconnect leave alone
coreFrame == <<mintInfoValue, decoded, clock, colorScheme, coreVars, savedXENFTs>>

\* the slot a new call of fetchAndRenderXenft takes
FirstIdle(i) ==
    /\ calls[i].pc = "idle"
    /\ \A j \in CallIds : j < i => calls[j].pc # "idle"

\* fetchAndRenderXenft(t) up to its first await: nothing without a contract
StartCall(t) ==
    IF xenftContract = "null"
    THEN UNCHANGED calls
    ELSE \E i \in CallIds :
            /\ FirstIdle(i)
            /\ calls' = [calls EXCEPT ![i] = [IdleCall EXCEPT !.pc = "vmuCount",
                                                            !.tokenId = t]]

\* handleViewToken with an entry that is not a positive number; the field is
\* in connectedContainer
ViewInvalidToken ==
    /\ ~connectedContainer.hidden
    /\ errorMessage' = showError(<<"Please enter a valid Token ID">>)
    /\ UNCHANGED <<xenftContract, currentTokenId, calls, loadingMessage,
                   xenftCardContainer, svgContainer, tokenInfo, otherVars>>

\* currentTokenId = t; fetchAndRenderXenft(t);
SetCurrentAndFetch(t) ==
    /\ currentTokenId' = t
    /\ StartCall(t)
    /\ loadingMessage' = IF xenftContract = "null" THEN loadingMessage
                         ELSE showLoading(TRUE)
    /\ UNCHANGED <<xenftContract, errorMessage, xenftCardContainer, svgContainer,
                   tokenInfo, otherVars>>

\* handleViewToken with a token id: it is recorded and fetchAndRenderXenft
\* runs up to its first await
ViewToken(t) ==
    /\ t > 0
    /\ ~connectedContainer.hidden
    /\ SetCurrentAndFetch(t)

\* a click on the badge of an owned token (renderOwnedTokens)
SelectOwnedToken(t) ==
    /\ \E k \in 1 .. Len(ownedTokens) : ownedTokens[k] = t
    /\ ~connectedContainer.hidden
    /\ SetCurrentAndFetch(t)

\* the catch and finally blocks of fetchAndRenderXenft
CatchAndFinally(i) ==
    /\ errorMessage' = showError(<<"Failed to fetch data for XENFT #",
                                   calls[i].tokenId, ". Please try again.">>)
    /\ loadingMessage' = showLoading(FALSE)
    /\ calls' = [calls EXCEPT ![i] = IdleCall]
    /\ UNCHANGED <<xenftContract, currentTokenId, xenftCardContainer, svgContainer,
                   tokenInfo, otherVars>>

\* an await resumes with a value and the next chain read is issued; the
\* read throws when xenftContract has become null
Resume(i, next, updated) ==
    IF xenftContract = "null"
    THEN CatchAndFinally(i)
    ELSE /\ calls' = [calls EXCEPT ![i] = [updated EXCEPT !.pc = next]]
         /\ UNCHANGED <<xenftContract, currentTokenId, loadingMessage, errorMessage,
                        xenftCardContainer, svgContainer, tokenInfo, otherVars>>

VmuCountReturns(i, v) ==
    /\ calls[i].pc = "vmuCount"
    /\ Resume(i, "mintInfo", [calls[i] EXCEPT !.vmuCountValue = v])

MintInfoReturns(i, v) ==
    /\ calls[i].pc = "mintInfo"
    /\ Resume(i, "xenBurned", [calls[i] EXCEPT !.mintInfoValue = v])

XenBurnedReturns(i, v) ==
    /\ calls[i].pc = "xenBurned"
    /\ Resume(i, "isApex", [calls[i] EXCEPT !.xenBurnedValue = v])

\* the object fetchAndRenderXenft builds; Number() of the small counts the
\* model draws is exact
xenftDataOf(call, mintInfo, isApexValue) ==
    [tokenId  |-> call.tokenId,
     vmuCount |-> call.vmuCountValue,
     mintInfo |-> mintInfo,
     xenBurned |-> call.xenBurnedValue,
     isApex   |-> isApexValue]

\* displayXENFT(xenftData), then the card is shown, then finally
DisplayAndFinally(i, xenftData) ==
    /\ svgContainer' = [innerHTML |-> generateXENFTSVG(xenftData, clock)]
    /\ tokenInfo' = [displayTokenId |-> xenftData.tokenId,
                     vmuCount       |-> xenftData.vmuCount,
                     termValue      |-> xenftData.mintInfo.term,
                     burnedValue    |-> xenftData.xenBurned,
                     typeValue      |-> <<getXENFTRarityInfo(xenftData).category,
                                          getXENFTRarityInfo(xenftData).rarity>>]
    /\ xenftCardContainer' = [hidden |-> FALSE]
    /\ loadingMessage' = showLoading(FALSE)
    /\ calls' = [calls EXCEPT ![i] = IdleCall]
    /\ UNCHANGED <<xenftContract, currentTokenId, errorMessage, otherVars>>

\* the last await resumes: decode, build the data, display
IsApexReturns(i, v) ==
    /\ calls[i].pc = "isApex"
    /\ \E mintInfo \in {decodeMintInfo(calls[i].mintInfoValue)} :
          IF mintInfo.threw
          THEN CatchAndFinally(i)
          ELSE \E xenftData \in {xenftDataOf(calls[i], mintInfo.value, v)} :
                  DisplayAndFinally(i, xenftData)

\* a chain read fails: the await throws
ChainReadFails(i) ==
    /\ calls[i].pc \in {"vmuCount", "mintInfo", "xenBurned", "isApex"}
    /\ CatchAndFinally(i)

(***************************************************************************)
(* app.js: connectToRPC, connectWallet, fetchOwnedTokens, disconnect.      *)
(* The two connect buttons are in connectionContainer, which is shown      *)
(* exactly when connectedContainer is hidden.  The awaits of connectWallet *)
(* up to provider.listAccounts() are one step.                             *)
(***************************************************************************)
\* a click on a connect button: showLoading(true); hideError(); first await
Connect(kind) ==
    /\ connectedContainer.hidden
    /\ ~loadingMessage.buttonsDisabled
    /\ connectCall.pc = "idle"
    /\ connectCall' = [pc |-> kind]
    /\ loadingMessage' = showLoading(TRUE)
    /\ errorMessage' = hideError(errorMessage)
    /\ UNCHANGED <<xenftContract, currentTokenId, calls, xenftCardContainer,
                   svgContainer, tokenInfo, provider, xenCryptoContract, account,
                   ownedTokens, connectedContainer, coreFrame>>

ConnectToRPC == Connect("loadEthers")

ConnectWallet == Connect("wallet")

\* connectToRPC after await loadEthers(): provider, initializeContracts(),
\* updateUIOnConnect(false), finally
RpcConnected ==
    /\ connectCall.pc = "loadEthers"
    /\ provider' = "rpc"
    /\ xenftContract' = "contract"
    /\ xenCryptoContract' = "contract"
    /\ connectedContainer' = [hidden |-> FALSE]
    /\ loadingMessage' = showLoading(FALSE)
    /\ connectCall' = [pc |-> "idle"]
    /\ UNCHANGED <<currentTokenId, calls, errorMessage, xenftCardContainer,
                   svgContainer, tokenInfo, account, ownedTokens, coreFrame>>

\* an await of connectToRPC or connectWallet throws: catch and finally
ConnectFails ==
    /\ connectCall.pc \in {"loadEthers", "wallet"}
    /\ errorMessage' = showError(IF connectCall.pc = "wallet"
                                 THEN <<"Failed to connect wallet. Please try again.">>
                                 ELSE <<"Failed to connect to the blockchain. Please try again.">>)
    /\ loadingMessage' = showLoading(FALSE)
    /\ connectCall' = [pc |-> "idle"]
    /\ UNCHANGED <<xenftContract, currentTokenId, calls, xenftCardContainer,
                   svgContainer, tokenInfo, provider, xenCryptoContract, account,
                   ownedTokens, connectedContainer, coreFrame>>

\* connectWallet after provider.listAccounts(): account, initializeContracts(),
\* and fetchOwnedTokens() up to its await
WalletConnected ==
    /\ connectCall.pc = "wallet"
    /\ provider' = "wallet"
    /\ account' = "account"
    /\ xenftContract' = "contract"
    /\ xenCryptoContract' = "contract"
    /\ connectCall' = [pc |-> "ownedTokens"]
    /\ UNCHANGED <<currentTokenId, calls, loadingMessage, errorMessage,
                   xenftCardContainer, svgContainer, tokenInfo, ownedTokens,
                   connectedContainer, coreFrame>>

\* fetchOwnedTokens after await connectedContract.ownedTokens(): the first
\* token becomes the current one and fetchAndRenderXenft is called without
\* await; then connectWallet goes on: updateUIOnConnect(true), finally
OwnedTokensReturn(tokens) ==
    /\ connectCall.pc = "ownedTokens"
    /\ ownedTokens' = tokens
    /\ IF Len(tokens) > 0
       THEN currentTokenId' = tokens[1] /\ StartCall(tokens[1])
       ELSE UNCHANGED <<currentTokenId, calls>>
    /\ connectedContainer' = [hidden |-> FALSE]
    /\ loadingMessage' = showLoading(FALSE)
    /\ connectCall' = [pc |-> "idle"]
    /\ UNCHANGED <<xenftContract, errorMessage, xenftCardContainer, svgContainer,
                   tokenInfo, provider, xenCryptoContract, account, coreFrame>>

\* the await of fetchOwnedTokens throws: its catch, then connectWallet goes on
OwnedTokensFails ==
    /\ connectCall.pc = "ownedTokens"
    /\ errorMessage' = showError(<<"Failed to fetch your XENFTs. Please try again.">>)
    /\ connectedContainer' = [hidden |-> FALSE]
    /\ loadingMessage' = showLoading(FALSE)
    /\ connectCall' = [pc |-> "idle"]
    /\ UNCHANGED <<xenftContract, currentTokenId, calls, xenftCardContainer,
                   svgContainer, tokenInfo, provider, xenCryptoContract, account,
                   ownedTokens, coreFrame>>

\* disconnect(): from the button in connectedContainer, or from the
\* "disconnect" event of the wallet provider
Disconnect ==
    /\ ~connectedContainer.hidden \/ provider = "wallet"
    /\ provider' = "null"
    /\ xenftContract' = "null"
    /\ xenCryptoContract' = "null"
    /\ account' = "null"
    /\ ownedTokens' = <<>>
    /\ currentTokenId' = 0
    /\ connectedContainer' = [hidden |-> TRUE]
    /\ xenftCardContainer' = [hidden |-> TRUE]
    /\ errorMessage' = hideError(errorMessage)
    /\ UNCHANGED <<calls, loadingMessage, svgContainer, tokenInfo, connectCall,
                   coreFrame>>

NextFetch ==
    \/ ViewInvalidToken
    \/ \E t \in TokenInputs : ViewToken(t)
    \/ \E t \in TokenInputs : SelectOwnedToken(t)
    \/ \E i \in CallIds, v \in VmuCountValues : VmuCountReturns(i, v)
    \/ \E i \in CallIds, v \in MintInfoValues : MintInfoReturns(i, v)
    \/ \E i \in CallIds, v \in XenBurnedValues : XenBurnedReturns(i, v)
    \/ \E i \in CallIds, v \in BOOLEAN : IsApexReturns(i, v)
    \/ \E i \in CallIds : ChainReadFails(i)
    \/ ConnectToRPC
    \/ ConnectWallet
    \/ RpcConnected
    \/ ConnectFails
    \/ WalletConnected
    \/ \E tokens \in OwnedTokensValues : OwnedTokensReturn(tokens)
    \/ OwnedTokensFails
    \/ Disconnect

SpecFetch == InitFetch /\ [][NextFetch]_vars

(***************************************************************************)
(* Claim about a value that cannot be decoded, checked under SpecFetch.    *)
(***************************************************************************)
\* the all-zero DecodedMintInfo
ZeroMintInfo ==
    [term |-> 0, maturityTs |-> {}, rank |-> <<0>>, amp |-> 0, eaa |-> 0,
     class |-> [isApex |-> FALSE, isLimited |-> FALSE, powerGroupIdx |-> 0],
     redeemed |-> FALSE]

\* C4: when the value to decode cannot be parsed as an integer, no exception
\* reaches the caller: fetchAndRenderXenft obtains the all-zero record and
\* the token is rendered from it, the card is shown and no error is raised.
C4_MalformedRendersZero ==
    [][\A i \in CallIds, v \in BOOLEAN :
          (IsApexReturns(i, v) /\ calls[i].mintInfoValue.kind = "malformed") =>
              /\ errorMessage' = errorMessage
              /\ ~xenftCardContainer'.hidden
              /\ svgContainer'.innerHTML =
                   generateXENFTSVG(xenftDataOf(calls[i], ZeroMintInfo, v), clock)]_vars

(***************************************************************************)
(* Claims about the page, checked under SpecFetch.                         *)
(***************************************************************************)
\* the image shown is an image of the token t
ShowsToken(image, t) == Has(image, "tokenId") /\ image.tokenId = t

\* the image shown is the error image
ShowsErrorImage(image) == Has(image, "title") /\ image.title = "SVG Generation Error"

\* C21: for every chain response, the value that cannot be decoded included,
\* rendering a token ends with the card holding a normal image of that token
\* (placeholder values included) or the labelled error image.
C21_RenderingTotal ==
    [][\A i \in CallIds, v \in BOOLEAN :
          IsApexReturns(i, v) =>
              \/ ShowsToken(svgContainer'.innerHTML, calls[i].tokenId)
              \/ ShowsErrorImage(svgContainer'.innerHTML)]_vars

\* C25: when the last of the requests in flight completes by displaying its
\* token, with a token recorded in currentTokenId and no request having
\* failed (the error line is hidden), the card shows the token recorded in
\* currentTokenId, the one requested last.
C25_CardShowsCurrentToken ==
    [][\A i \in CallIds, v \in BOOLEAN :
          (/\ IsApexReturns(i, v)
           /\ \A j \in CallIds : calls'[j].pc = "idle"
           /\ currentTokenId # 0
           /\ errorMessage'.hidden
           /\ ~xenftCardContainer'.hidden) =>
              tokenInfo'.displayTokenId = currentTokenId']_vars

\* C26: disconnect resets the session (provider, both contract handles and
\* the account null, no current token, no owned tokens) and hides the card,
\* and as long as no new connection is made they stay so, whatever completes
\* in the meantime.
C26_DisconnectedStaysReset ==
    provider = "null" =>
        /\ xenftContract = "null"
        /\ xenCryptoContract = "null"
        /\ account = "null"
        /\ currentTokenId = 0
        /\ ownedTokens = <<>>
        /\ xenftCardContainer.hidden

\* a connect or token-fetch request is at an await
RequestInFlight ==
    \/ connectCall.pc # "idle"
    \/ \E i \in CallIds : calls[i].pc # "idle"

\* C27: whenever a connect or token-fetch request is in flight the loading
\* indicator is shown and the connect buttons are disabled.
C27_LoadingWhileInFlight ==
    RequestInFlight => (~loadingMessage.hidden /\ loadingMessage.buttonsDisabled)

====
